---- MODULE Spec2Model ----
(***************************************************************************)
(* Snake game engine of src/App.tsx (React component App), the review      *)
(* gateway getGameReview and the sound service, as a state machine.        *)
(* Every event handler and every timer callback is one atomic action: the  *)
(* browser runs them one at a time on a single thread.                     *)
(* Spec runs the game handlers, SpecSaved the same from a stored high      *)
(* score, SpecApp the game and the settings handlers (mute, difficulty),   *)
(* SpecSpeed the interval function and SpecFood the loop of generateFood.  *)
(***************************************************************************)
EXTENDS Integers, Sequences, FiniteSets, TLC

\* ------------------------------------------------------------------ bounds
\* Total number of ticks (setInterval callbacks) explored over all episodes.
MaxTicks == 15
\* Number of food items the snake may eat within one episode.
MaxFoodEaten == 2
\* Total number of ticks explored when the settings handlers run as well.
MaxTicksApp == 11
\* Number of food items eaten up to which the tick interval is computed.
MaxSpeedFood == 130

\* --------------------------------------------------------- program constants
GRID_SIZE == 20

Directions == {"UP", "DOWN", "LEFT", "RIGHT"}

Difficulties == {"EASY", "MEDIUM", "HARD"}

\* DIFFICULTY_SETTINGS. speedIncrement is 1.5, 3 and 6: it is held as twice
\* its value, so that every interval is an integer number of half
\* milliseconds (initialSpeed - n * speedIncrement is a multiple of 0.5,
\* which JavaScript numbers hold exactly).
DIFFICULTY_SETTINGS ==
  [EASY   |-> [initialSpeed |-> 200, speedIncrementTimes2 |-> 3],
   MEDIUM |-> [initialSpeed |-> 140, speedIncrementTimes2 |-> 6],
   HARD   |-> [initialSpeed |-> 90,  speedIncrementTimes2 |-> 12]]

\* the floor of Math.max(30, ...) in currentSpeed
MIN_SPEED == 30

Point(px, py) == [x |-> px, y |-> py]

\* useState initial values of snake and food
InitialSnake == <<Point(10, 10), Point(10, 11), Point(10, 12)>>
InitialFood == Point(5, 5)

\* generateFood: `let newFood;` before the first sample is drawn
NoPoint == Point(-1, -1)

\* aiReview === null
NoReview == [rank |-> "", comment |-> ""]

\* the pair returned by the catch branch of getGameReview
FallbackReview ==
  [rank |-> "Persistent Reptile",
   comment |-> "Your slithering was... adequate. Try not to eat your own tail next time."]

\* the pair parsed from the default text used when response.text is empty
DefaultTextReview ==
  [rank |-> "Worm", comment |-> "Better luck next time, hatchling."]

\* a pair parsed from a well-formed answer of the service
ServiceReview == [rank |-> "service rank", comment |-> "service comment"]

\* The cells Math.random() is let to produce in generateFood: a sample of the
\* GRID_SIZE * GRID_SIZE cells that has cells ahead of the start position, a
\* cell under the body of the start snake, and the initial food cell.
RandomCells == {Point(10, 9), Point(10, 8), Point(10, 11), Point(5, 5)}

VARIABLES
  snake,             \* Point[]: head first
  food,              \* Point
  direction,         \* pending direction (state `direction`)
  lastDirection,     \* lastDirection.current
  isGameOver,
  isPaused,
  showPauseConfirm,
  score,
  highScore,
  aiReview,          \* NoReview stands for null
  loadingAi,
  isMuted,
  difficulty,
  soundMuted,        \* SoundService.muted
  keyMuted,          \* isMuted as captured by the registered handleKeyDown
  storage,           \* localStorage: key -> string, "" when the key is absent
  inflight,          \* getGameReview calls awaited by endGame, not yet settled
  episode,           \* history: number of resetGame calls so far
  reviewEpisode,     \* history: the episode whose endGame set aiReview (0: none)
  ticks,             \* number of ticks taken (bounded by MaxTicks)
  gfSnake,           \* generateFood: its argument currentSnake
  gfPc,              \* generateFood: "idle", "sampling" (in the loop), "returned"
  gfFood             \* generateFood: the local newFood

gameVars == <<snake, food, direction, lastDirection, isGameOver, isPaused,
              showPauseConfirm, score, highScore, aiReview, loadingAi, isMuted,
              difficulty, soundMuted, keyMuted, storage, inflight, episode,
              reviewEpisode, ticks>>
gfVars == <<gfSnake, gfPc, gfFood>>
vars == <<gameVars, gfVars>>

\* ------------------------------------------------------------ pure helpers
Cells(s) == {s[i] : i \in 1..Len(s)}

Front(s) == SubSeq(s, 1, Len(s) - 1)

Opposite(d) ==
  CASE d = "UP" -> "DOWN"
    [] d = "DOWN" -> "UP"
    [] d = "LEFT" -> "RIGHT"
    [] d = "RIGHT" -> "LEFT"

\* moveSnake: the switch on direction
NewHead(head, d) ==
  CASE d = "UP" -> Point(head.x, head.y - 1)
    [] d = "DOWN" -> Point(head.x, head.y + 1)
    [] d = "LEFT" -> Point(head.x - 1, head.y)
    [] d = "RIGHT" -> Point(head.x + 1, head.y)

\* mutant of WallCollision: the upper limits tested with > instead of >=
WallCollisionOffByOne(p) ==
  p.x < 0 \/ p.x > GRID_SIZE \/ p.y < 0 \/ p.y > GRID_SIZE

\* moveSnake: wall collision test
WallCollision(p) ==
  p.x < 0 \/ p.x >= GRID_SIZE \/ p.y < 0 \/ p.y >= GRID_SIZE

\* mutant of BodyCollision: the body test left out
BodyCollisionLeftOut(prevSnake, p) == FALSE

\* moveSnake: body collision test, prevSnake.some(...)
BodyCollision(prevSnake, p) ==
  \E i \in 1..Len(prevSnake) : prevSnake[i].x = p.x /\ prevSnake[i].y = p.y

\* mutant of generateFood: the head of currentSnake is not tested
generateFoodIgnoringHead(currentSnake) ==
  {c \in RandomCells :
     ~(\E i \in 2..Len(currentSnake) :
         currentSnake[i].x = c.x /\ currentSnake[i].y = c.y)}

\* generateFood: the cells the sampling loop can return for currentSnake
generateFood(currentSnake) ==
  {c \in RandomCells :
     ~(\E i \in 1..Len(currentSnake) :
         currentSnake[i].x = c.x /\ currentSnake[i].y = c.y)}

\* The phase of the spec's state machine, read off the three flags the
\* overlays of the component are rendered from.
Phase ==
  IF isGameOver THEN "OVER"
  ELSE IF showPauseConfirm THEN "CONFIRM_PAUSE"
  ELSE IF isPaused THEN (IF score = 0 THEN "READY" ELSE "PAUSED")
  ELSE "RUNNING"

\* ------------------------------------------------------ state after mount
\* parseInt on the decimal strings score.toString() has written
ParseInt(str) == CHOOSE n \in 0..(10 * MaxSpeedFood) : ToString(n) = str

\* The state after the first render and the mount effect, which reads
\* localStorage: savedScore and savedDiff are the stored 'snake-high-score'
\* and 'snake-difficulty' ("" when absent); 'snake-muted' is absent.
Mount(savedScore, savedDiff) ==
  /\ snake = InitialSnake
  /\ food = InitialFood
  /\ direction = "UP"
  /\ lastDirection = "UP"
  /\ isGameOver = FALSE
  /\ isPaused = TRUE
  /\ showPauseConfirm = FALSE
  /\ score = 0
  /\ highScore = IF savedScore # "" THEN ParseInt(savedScore) ELSE 0
  /\ aiReview = NoReview
  /\ loadingAi = FALSE
  /\ isMuted = FALSE
  /\ difficulty = IF savedDiff \in Difficulties THEN savedDiff ELSE "MEDIUM"
  /\ soundMuted = FALSE
  /\ keyMuted = FALSE
  /\ storage = [k \in {"snake-high-score", "snake-muted", "snake-difficulty"} |->
                  CASE k = "snake-high-score" -> savedScore
                    [] k = "snake-difficulty" -> savedDiff
                    [] OTHER -> ""]
  /\ inflight = {}
  /\ episode = 1
  /\ reviewEpisode = 0
  /\ ticks = 0
  /\ gfSnake = <<>>
  /\ gfPc = "idle"
  /\ gfFood = NoPoint

\* first visit: nothing stored
Init == Mount("", "")

\* The keydown effect has the dependencies isGameOver, isPaused, score and
\* handlePauseRequest (itself depending on these three): handleKeyDown is
\* registered again, and captures the toggleMute of the new render, only
\* when one of them has changed.
KeyHandlerRefresh ==
  keyMuted' = IF <<isGameOver', isPaused', score'>> # <<isGameOver, isPaused, score>>
                THEN isMuted'
                ELSE keyMuted

\* ------------------------------------------------------------------ endGame
\* mutant of EndGame: the score is stored without the comparison
EndGameAlwaysStoresScore ==
  /\ isGameOver' = TRUE
  /\ isPaused' = TRUE
  /\ showPauseConfirm' = FALSE
  /\ highScore' = score
  /\ storage' = [storage EXCEPT !["snake-high-score"] = ToString(score)]
  /\ loadingAi' = TRUE
  /\ inflight' = inflight \cup {[ep |-> episode, score |-> score]}

\* The synchronous part of endGame, up to the await: the flags, the high
\* score, the loading flag and the call of getGameReview.
EndGame ==
  /\ isGameOver' = TRUE
  /\ isPaused' = TRUE
  /\ showPauseConfirm' = FALSE
  /\ IF score > highScore
       THEN /\ highScore' = score
            /\ storage' = [storage EXCEPT !["snake-high-score"] = ToString(score)]
       ELSE UNCHANGED <<highScore, storage>>
  /\ loadingAi' = TRUE
  /\ inflight' = inflight \cup {[ep |-> episode, score |-> score]}

\* getGameReview: what the promise settles to for each behaviour of the service.
\*   "ok"         generateContent answers well-formed JSON text
\*   "emptyText"  response.text is empty: the default text is parsed
\*   "malformed"  JSON.parse throws inside the try block
\*   "apiThrows"  generateContent rejects inside the try block
\*   "ctorThrows" new GoogleGenAI(...) throws before the try block
ServiceBehaviours == {"ok", "emptyText", "malformed", "apiThrows", "ctorThrows"}

getGameReview(behaviour) ==
  CASE behaviour = "ok" -> [settled |-> "resolved", value |-> ServiceReview]
    [] behaviour = "emptyText" -> [settled |-> "resolved", value |-> DefaultTextReview]
    [] behaviour = "malformed" -> [settled |-> "resolved", value |-> FallbackReview]
    [] behaviour = "apiThrows" -> [settled |-> "resolved", value |-> FallbackReview]
    [] behaviour = "ctorThrows" -> [settled |-> "rejected", value |-> NoReview]

\* endGame after the await: runs when the promise of request r settles. A
\* rejected promise throws out of endGame, so the two setters do not run.
ReviewSettles(r, behaviour) ==
  /\ r \in inflight
  /\ inflight' = inflight \ {r}
  /\ LET review == getGameReview(behaviour) IN
       IF review.settled = "resolved"
         THEN /\ aiReview' = review.value
              /\ loadingAi' = FALSE
              /\ reviewEpisode' = r.ep
         ELSE UNCHANGED <<aiReview, loadingAi, reviewEpisode>>
  /\ UNCHANGED <<snake, food, direction, lastDirection, isGameOver, isPaused,
                 showPauseConfirm, score, highScore, isMuted, difficulty,
                 soundMuted, keyMuted, storage, episode, ticks, gfVars>>

\* ---------------------------------------------------------------- moveSnake
\* mutant of GrownSnake: newSnake.pop() run on the eating move as well
GrownSnakeWithPop(prevSnake, newHead) == Front(<<newHead>> \o prevSnake)

\* moveSnake: the snake after a move onto newHead that eats
GrownSnake(prevSnake, newHead) == <<newHead>> \o prevSnake

\* mutant of MovedSnake: newSnake.pop() left out
MovedSnakeWithoutPop(prevSnake, newHead) == <<newHead>> \o prevSnake

\* moveSnake: the snake after a move onto newHead that does not eat (pop)
MovedSnake(prevSnake, newHead) == Front(<<newHead>> \o prevSnake)

\* mutant of ScoreAfterEat: the score is raised inside the mute test of the
\* eat sound
ScoreAfterEatUnlessMuted(s) == IF soundMuted THEN s ELSE s + 10

\* mutant of ScoreAfterEat: one point for each food item
ScoreAfterEatByOne(s) == s + 1

\* moveSnake: setScore(s => s + 10)
ScoreAfterEat(s) == s + 10

\* moveSnake: the test that ends the game
Collision(prevSnake, newHead) ==
  WallCollision(newHead) \/ BodyCollision(prevSnake, newHead)

\* mutant of GameLoopActive: the interval is set whatever isPaused is
GameLoopActiveWhilePaused == ~isGameOver

\* the game loop effect: the interval is set while !isPaused && !isGameOver
GameLoopActive == ~isPaused /\ ~isGameOver

\* One callback of the interval, moveSnake, as long as fewer than limit
\* ticks have been taken.
TickWithin(limit) ==
  /\ GameLoopActive
  /\ ticks < limit
  /\ ticks' = ticks + 1
  /\ LET newHead == NewHead(snake[1], direction) IN
       IF Collision(snake, newHead)
         THEN /\ EndGame
              /\ UNCHANGED <<snake, food, score, lastDirection>>
         ELSE /\ IF newHead.x = food.x /\ newHead.y = food.y
                   THEN /\ score < 10 * MaxFoodEaten
                        /\ score' = ScoreAfterEat(score)
                        /\ snake' = GrownSnake(snake, newHead)
                        /\ food' \in generateFood(GrownSnake(snake, newHead))
                   ELSE /\ snake' = MovedSnake(snake, newHead)
                        /\ UNCHANGED <<food, score>>
              /\ lastDirection' = direction
              /\ UNCHANGED <<isGameOver, isPaused, showPauseConfirm, highScore,
                             storage, loadingAi, inflight>>
  /\ UNCHANGED <<direction, aiReview, isMuted, difficulty, soundMuted, episode,
                 reviewEpisode, gfVars>>
  /\ KeyHandlerRefresh

\* moveSnake in the runs of the game alone
Tick == TickWithin(MaxTicks)

\* moveSnake in the runs with the settings handlers
TickApp == TickWithin(MaxTicksApp)

\* ---------------------------------------------------------------- resetGame
\* the argument resetGame passes to generateFood
ResetFoodArgument == <<Point(10, 10)>>

\* mutant of ResetGame: lastDirection.current = Direction.UP left out
ResetGameKeepsLastDirection ==
  /\ isGameOver
  /\ snake' = InitialSnake
  /\ food' \in generateFood(ResetFoodArgument)
  /\ direction' = "UP"
  /\ isGameOver' = FALSE
  /\ score' = 0
  /\ isPaused' = FALSE
  /\ showPauseConfirm' = FALSE
  /\ aiReview' = NoReview
  /\ reviewEpisode' = 0
  /\ episode' = episode + 1
  /\ UNCHANGED <<lastDirection, highScore, loadingAi, isMuted, difficulty,
                 soundMuted, storage, inflight, ticks, gfVars>>
  /\ KeyHandlerRefresh

\* RETRY button of the game-over overlay
ResetGame ==
  /\ isGameOver
  /\ snake' = InitialSnake
  /\ food' \in generateFood(ResetFoodArgument)
  /\ direction' = "UP"
  /\ lastDirection' = "UP"
  /\ isGameOver' = FALSE
  /\ score' = 0
  /\ isPaused' = FALSE
  /\ showPauseConfirm' = FALSE
  /\ aiReview' = NoReview
  /\ reviewEpisode' = 0
  /\ episode' = episode + 1
  /\ UNCHANGED <<highScore, loadingAi, isMuted, difficulty, soundMuted, storage,
                 inflight, ticks, gfVars>>
  /\ KeyHandlerRefresh

\* ------------------------------------------------------- directional input
\* mutant of DirectionAccepted: the reversal test made against the pending
\* direction instead of lastDirection.current
DirectionAcceptedAgainstPending(d) == direction # Opposite(d) /\ ~isPaused

\* mutant of DirectionAccepted: the test against lastDirection.current
\* left out
DirectionAcceptedWithoutReversalTest(d) == ~isPaused

\* mutant of DirectionAccepted: the !isPaused test left out
DirectionAcceptedWhilePaused(d) == lastDirection # Opposite(d)

\* the guard of setDirection(d) in handleKeyDown and in the pointer buttons
DirectionAccepted(d) == lastDirection # Opposite(d) /\ ~isPaused

\* arrow key, WASD key or on-screen direction button for direction d
DirectionIntent(d) ==
  /\ IF DirectionAccepted(d) THEN direction' = d ELSE UNCHANGED direction
  /\ UNCHANGED <<snake, food, lastDirection, isGameOver, isPaused,
                 showPauseConfirm, score, highScore, aiReview, loadingAi,
                 isMuted, difficulty, soundMuted, keyMuted, storage, inflight,
                 episode, reviewEpisode, ticks, gfVars>>

\* ------------------------------------------------------------------- pause
\* mutant of PauseConfirmNeeded: the score > 0 test left out
PauseConfirmNeededAnyScore == ~isGameOver

\* handlePauseRequest: the test for the branch that asks for confirmation
PauseConfirmNeeded == ~isGameOver /\ score > 0

\* space bar, Escape or the on-screen pause button
HandlePauseRequest ==
  /\ IF PauseConfirmNeeded
       THEN IF ~isPaused
              THEN isPaused' = TRUE /\ showPauseConfirm' = TRUE
              ELSE isPaused' = FALSE /\ showPauseConfirm' = FALSE
       ELSE IF ~isGameOver /\ score = 0 /\ isPaused
              THEN isPaused' = FALSE /\ UNCHANGED showPauseConfirm
              ELSE UNCHANGED <<isPaused, showPauseConfirm>>
  /\ UNCHANGED <<snake, food, direction, lastDirection, isGameOver, score,
                 highScore, aiReview, loadingAi, isMuted, difficulty,
                 soundMuted, storage, inflight, episode, reviewEpisode, ticks,
                 gfVars>>
  /\ KeyHandlerRefresh

\* mutant of ConfirmResume: setShowPauseConfirm(false) left out
ConfirmResumeKeepsDialog ==
  /\ showPauseConfirm
  /\ isPaused' = FALSE
  /\ UNCHANGED <<snake, food, direction, lastDirection, isGameOver, score,
                 showPauseConfirm, highScore, aiReview, loadingAi, isMuted,
                 difficulty, soundMuted, storage, inflight, episode,
                 reviewEpisode, ticks, gfVars>>
  /\ KeyHandlerRefresh

\* RESUME GAME button of the pause confirmation dialog
ConfirmResume ==
  /\ showPauseConfirm
  /\ isPaused' = FALSE
  /\ showPauseConfirm' = FALSE
  /\ UNCHANGED <<snake, food, direction, lastDirection, isGameOver, score,
                 highScore, aiReview, loadingAi, isMuted, difficulty,
                 soundMuted, storage, inflight, episode, reviewEpisode, ticks,
                 gfVars>>
  /\ KeyHandlerRefresh

\* mutant of StayPaused: the button clears the pause as RESUME GAME does
StayPausedResumes ==
  /\ showPauseConfirm
  /\ showPauseConfirm' = FALSE
  /\ isPaused' = FALSE
  /\ UNCHANGED <<snake, food, direction, lastDirection, isGameOver,
                 score, highScore, aiReview, loadingAi, isMuted, difficulty,
                 soundMuted, keyMuted, storage, inflight, episode, reviewEpisode,
                 ticks, gfVars>>

\* STAY PAUSED button of the pause confirmation dialog
StayPaused ==
  /\ showPauseConfirm
  /\ showPauseConfirm' = FALSE
  /\ UNCHANGED <<snake, food, direction, lastDirection, isGameOver, isPaused,
                 score, highScore, aiReview, loadingAi, isMuted, difficulty,
                 soundMuted, keyMuted, storage, inflight, episode, reviewEpisode,
                 ticks, gfVars>>

\* START GAME (score 0) and RESUME (score > 0) buttons of the paused overlay
OverlayResume ==
  /\ isPaused /\ ~isGameOver /\ ~showPauseConfirm
  /\ isPaused' = FALSE
  /\ UNCHANGED <<snake, food, direction, lastDirection, isGameOver,
                 showPauseConfirm, score, highScore, aiReview, loadingAi,
                 isMuted, difficulty, soundMuted, storage, inflight,
                 episode, reviewEpisode, ticks, gfVars>>
  /\ KeyHandlerRefresh

\* ---------------------------------------------------------------- settings
\* String(newMuted)
BoolString(b) == IF b THEN "true" ELSE "false"

\* toggleMute, run with the isMuted its closure has captured
toggleMute(capturedMuted) ==
  /\ isMuted' = ~capturedMuted
  /\ soundMuted' = ~capturedMuted
  /\ storage' = [storage EXCEPT !["snake-muted"] = BoolString(~capturedMuted)]
  /\ UNCHANGED <<snake, food, direction, lastDirection, isGameOver, isPaused,
                 showPauseConfirm, score, highScore, aiReview, loadingAi,
                 difficulty, keyMuted, inflight, episode, reviewEpisode, ticks,
                 gfVars>>

\* the mute button of the header: onClick is the toggleMute of the last render
ToggleMuteButton == toggleMute(isMuted)

\* the M key: handleKeyDown calls the toggleMute it was registered with
ToggleMuteKey == toggleMute(keyMuted)

\* mutant of DifficultyButtonsShown: the paused overlay shows the buttons
\* whatever the score is
DifficultyButtonsShownAnyScore ==
  \/ isPaused /\ ~isGameOver /\ ~showPauseConfirm
  \/ isGameOver

\* The difficulty buttons are rendered in the paused overlay while the score
\* is 0 and in the game-over overlay.
DifficultyButtonsShown ==
  \/ isPaused /\ ~isGameOver /\ ~showPauseConfirm /\ score = 0
  \/ isGameOver

\* handleDifficultyChange(d), reached through a difficulty button
DifficultyChange(d) ==
  /\ DifficultyButtonsShown
  /\ difficulty' = d
  /\ storage' = [storage EXCEPT !["snake-difficulty"] = d]
  /\ UNCHANGED <<snake, food, direction, lastDirection, isGameOver, isPaused,
                 showPauseConfirm, score, highScore, aiReview, loadingAi,
                 isMuted, soundMuted, keyMuted, inflight, episode,
                 reviewEpisode, ticks, gfVars>>

\* mutant of currentSpeedTimes2: Math.max(30, ...) left out
currentSpeedWithoutFloor(d, s) ==
  LET config == DIFFICULTY_SETTINGS[d]
  IN 2 * config.initialSpeed - (s \div 10) * config.speedIncrementTimes2

\* currentSpeed, in half milliseconds
currentSpeedTimes2(d, s) ==
  LET config == DIFFICULTY_SETTINGS[d]
      linear == 2 * config.initialSpeed - (s \div 10) * config.speedIncrementTimes2
  IN IF linear > 2 * MIN_SPEED THEN linear ELSE 2 * MIN_SPEED

\* ------------------------------------------------------------ specification
Next ==
  \/ Tick
  \/ ResetGame
  \/ \E d \in Directions : DirectionIntent(d)
  \/ HandlePauseRequest
  \/ ConfirmResume
  \/ StayPaused
  \/ OverlayResume
  \/ \E r \in inflight : \E b \in ServiceBehaviours : ReviewSettles(r, b)

Spec == Init /\ [][Next]_vars

\* The game started in a browser that holds a high score of an earlier visit.
SavedHighScores == {"", "10"}

InitSaved == \E savedScore \in SavedHighScores : Mount(savedScore, "")

SpecSaved == InitSaved /\ [][Next]_vars

\* The game together with the settings handlers.
NextApp ==
  \/ TickApp
  \/ ResetGame
  \/ \E d \in Directions : DirectionIntent(d)
  \/ HandlePauseRequest
  \/ ConfirmResume
  \/ StayPaused
  \/ OverlayResume
  \/ \E r \in inflight : \E b \in ServiceBehaviours : ReviewSettles(r, b)
  \/ ToggleMuteButton
  \/ ToggleMuteKey
  \/ \E d \in Difficulties : DifficultyChange(d)

SpecApp == Init /\ [][NextApp]_vars

\* The game together with the mute toggles alone.
NextMute ==
  \/ TickApp
  \/ ResetGame
  \/ \E d \in Directions : DirectionIntent(d)
  \/ HandlePauseRequest
  \/ ConfirmResume
  \/ StayPaused
  \/ OverlayResume
  \/ \E r \in inflight : \E b \in ServiceBehaviours : ReviewSettles(r, b)
  \/ ToggleMuteButton
  \/ ToggleMuteKey

SpecMute == Init /\ [][NextMute]_vars

\* ------------------------------------------------- currentSpeed by itself
\* currentSpeed is a memo of the difficulty and the score: it is run over
\* every tier, as left by the mount effect, and every score up to
\* 10 * MaxSpeedFood, the score growing as on a tick that eats.
InitSpeed == \E savedDiff \in Difficulties : Mount("", savedDiff)

ScoreGrows ==
  /\ score < 10 * MaxSpeedFood
  /\ score' = ScoreAfterEat(score)
  /\ UNCHANGED <<snake, food, direction, lastDirection, isGameOver, isPaused,
                 showPauseConfirm, highScore, aiReview, loadingAi, isMuted,
                 difficulty, soundMuted, keyMuted, storage, inflight, episode,
                 reviewEpisode, ticks, gfVars>>

NextSpeed == ScoreGrows

SpecSpeed == InitSpeed /\ [][NextSpeed]_vars

\* ------------------------------------------- generateFood, step by step
\* The loop of generateFood itself, sampling over the whole grid, run on
\* snakes that wind row by row over the first k cells of the grid.
SerpentineCell(i) ==
  LET row == (i - 1) \div GRID_SIZE
      col == (i - 1) % GRID_SIZE
  IN Point(IF row % 2 = 0 THEN col ELSE GRID_SIZE - 1 - col, row)

SerpentineSnake(k) == [i \in 1..k |-> SerpentineCell(k + 1 - i)]

\* lengths of the snakes generateFood is called with: the one-segment
\* argument of resetGame, the start snake, one free cell left, the full grid
InputLengths == {1, 3, GRID_SIZE * GRID_SIZE - 1, GRID_SIZE * GRID_SIZE}

\* generateFood(currentSnake) is entered
GenerateFoodCall(k) ==
  /\ gfPc = "idle"
  /\ gfSnake = <<>>
  /\ gfSnake' = SerpentineSnake(k)
  /\ gfPc' = "sampling"
  /\ UNCHANGED <<gfFood, gameVars>>

\* one iteration of while (true): draw newFood, break when it is off the snake
GenerateFoodSample ==
  /\ gfPc = "sampling"
  /\ LET occupied == Cells(gfSnake) IN
       \E sx \in 0..(GRID_SIZE - 1), sy \in 0..(GRID_SIZE - 1) :
         /\ gfFood' = Point(sx, sy)
         /\ gfPc' = IF Point(sx, sy) \notin occupied THEN "returned" ELSE "sampling"
  /\ UNCHANGED <<gfSnake, gameVars>>

NextFood ==
  \/ \E k \in InputLengths : GenerateFoodCall(k)
  \/ GenerateFoodSample

SpecFood == Init /\ [][NextFood]_vars

\* ===================================================================== claims
\* The cell a tick moves the head onto, and the last segment of the snake.
TickHead == NewHead(snake[1], direction)
TailCell == snake[Len(snake)]
OffGrid(p) == p.x \notin 0..(GRID_SIZE - 1) \/ p.y \notin 0..(GRID_SIZE - 1)

\* C1: in every reachable state the snake sequence contains no coordinate twice.
C1_NoDuplicateSegments ==
  \A i, j \in 1..Len(snake) : i # j => snake[i] # snake[j]

\* C1 witness: a second episode has ended on a five-segment snake whose head
\* ran into a segment of its body that is not the tail.
C1_Witness ==
  /\ episode >= 2 /\ isGameOver /\ Len(snake) = 5
  /\ TickHead \in Cells(Front(snake))

\* C2: every time food is placed (growth tick, resetGame), the cell chosen is
\* on no segment of the snake in place once the operation completes.
C2_FoodPlacedOffSnake ==
  [][(ResetGame \/ (Tick /\ score' # score)) => food' \notin Cells(snake')]_vars

\* C3: a review answer arriving after a retry is discarded: while RUNNING the
\* review result is absent, and in OVER a review shown is the one requested
\* at this episode's game-over.
C3_StaleReviewDiscarded ==
  /\ Phase = "RUNNING" => aiReview = NoReview
  /\ Phase = "OVER" /\ aiReview # NoReview => reviewEpisode = episode

\* C4: a non-growing tick whose new head lands on the cell of the current
\* tail is no collision: the phase stays RUNNING and the snake advances.
C4_TailCellIsNoCollision ==
  [][(Tick /\ ~OffGrid(TickHead) /\ TickHead = TailCell /\ TickHead # food)
       => (Phase' = "RUNNING" /\ snake' = <<TickHead>> \o Front(snake))]_vars

\* C5: while RUNNING, a directional intent d becomes the pending direction
\* if and only if d is not the opposite of lastDirection, whatever is
\* pending; an opposite intent leaves the pending direction unchanged.
C5_IntentAcceptedIffNotOpposite ==
  Phase = "RUNNING" =>
    \A d \in Directions :
      IF d # Opposite(lastDirection)
        THEN ~ENABLED (DirectionIntent(d) /\ direction' # d)
        ELSE ~ENABLED (DirectionIntent(d) /\ direction' # direction)

\* C5 witness: RUNNING with an accepted turn pending that differs from the
\* direction of the last tick.
C5_Witness ==
  Phase = "RUNNING" /\ ticks > 0 /\ direction # lastDirection

\* C6: a directional intent in READY, PAUSED, CONFIRM_PAUSE or OVER changes
\* nothing: neither the pending direction, nor lastDirection, nor the rest.
C6_IntentRejectedWhenNotRunning ==
  Phase # "RUNNING" =>
    \A d \in Directions : ~ENABLED (DirectionIntent(d) /\ vars' # vars)

\* C6 witness: PAUSED with a pending direction, where a turn that is not a
\* reversal of lastDirection is still refused.
C6_Witness ==
  Phase = "PAUSED" /\ direction # lastDirection

\* C7: a tick whose new head is off the grid or on a cell of the snake moves
\* the phase from RUNNING to OVER and leaves snake, food and score as they were.
C7_CollisionEndsGame ==
  [][(Tick /\ (OffGrid(TickHead) \/ TickHead \in Cells(snake)))
       => (Phase = "RUNNING" /\ Phase' = "OVER"
           /\ snake' = snake /\ food' = food /\ score' = score)]_vars

\* C7 witness: the game is over with the head at the left wall heading LEFT.
C7_Witness ==
  Phase = "OVER" /\ snake[1].x = 0 /\ direction = "LEFT"

\* C8: a tick whose new head is in bounds, off the snake and off the food
\* yields [newHead] followed by the old snake without its last segment;
\* length, score and food are unchanged; lastDirection is the direction used.
C8_PlainMove ==
  [][(Tick /\ ~OffGrid(TickHead) /\ TickHead \notin Cells(snake) /\ TickHead # food)
       => (/\ snake' = <<TickHead>> \o Front(snake)
           /\ Len(snake') = Len(snake)
           /\ score' = score /\ food' = food
           /\ lastDirection' = direction)]_vars

\* C8 witness: the start snake has moved one cell UP without eating.
C8_Witness ==
  /\ snake = <<Point(10, 9), Point(10, 10), Point(10, 11)>>
  /\ score = 0 /\ lastDirection = "UP" /\ Phase = "RUNNING"

\* C9: a tick whose new head is the food cell (and no collision) yields
\* [newHead] followed by the whole old snake, adds exactly 10 to the score
\* and moves the food to a cell that is on no segment of the grown snake.
C9_GrowthMove ==
  [][(Tick /\ ~OffGrid(TickHead) /\ TickHead \notin Cells(snake) /\ TickHead = food)
       => (/\ snake' = <<TickHead>> \o snake
           /\ Len(snake') = Len(snake) + 1
           /\ score' = score + 10
           /\ food' \notin Cells(snake'))]_vars

\* C9 witness: heading UP the snake has eaten the food at (10,9).
C9_Witness ==
  /\ score = 10 /\ Len(snake) = 4 /\ snake[1] = Point(10, 9)
  /\ lastDirection = "UP" /\ food \notin Cells(snake)

\* C10: food placement never loops forever: in every state in which the
\* loop of generateFood is running, one more sample can end it (with a free
\* cell, or with an error when the snake covers the whole grid).
C10_SamplingCanEnd ==
  gfPc = "sampling" => ENABLED (GenerateFoodSample /\ gfPc' # "sampling")

\* C11: getGameReview resolves for every outcome of the service and, on every
\* outcome other than a well-formed answer, to exactly the fallback pair; so
\* every settling of a review request clears the loading flag.
C11_ReviewAlwaysResolves ==
  [][\A r \in inflight : \A b \in ServiceBehaviours :
       ReviewSettles(r, b) =>
         /\ getGameReview(b).settled = "resolved"
         /\ loadingAi' = FALSE
         /\ b # "ok" => aiReview' = FallbackReview]_vars

\* the snake, the food, the score and the two directions
PlayState == <<snake, food, score, direction, lastDirection>>

\* C12: from RUNNING with a positive score a pause request leads to
\* CONFIRM_PAUSE; from there STAY PAUSED leads to PAUSED with the dialog
\* closed; from there a resume leads to RUNNING; none of the three steps
\* changes the snake, the food, the score or the directions.
C12_PauseConfirmResume ==
  [][/\ (Phase = "RUNNING" /\ score > 0 /\ HandlePauseRequest)
          => (Phase' = "CONFIRM_PAUSE" /\ PlayState' = PlayState)
     /\ (Phase = "CONFIRM_PAUSE" /\ StayPaused)
          => (Phase' = "PAUSED" /\ ~showPauseConfirm' /\ PlayState' = PlayState)
     /\ (Phase = "PAUSED" /\ (OverlayResume \/ HandlePauseRequest))
          => (Phase' = "RUNNING" /\ PlayState' = PlayState)]_vars

\* C12 witness: PAUSED with a positive score and the dialog closed, which is
\* reached only by a pause request while RUNNING followed by STAY PAUSED.
C12_Witness ==
  Phase = "PAUSED" /\ score > 0 /\ ~showPauseConfirm

\* the phase changes of the lifecycle
PhaseChanges ==
  {<<"READY", "RUNNING">>, <<"RUNNING", "CONFIRM_PAUSE">>,
   <<"CONFIRM_PAUSE", "RUNNING">>, <<"CONFIRM_PAUSE", "PAUSED">>,
   <<"PAUSED", "RUNNING">>, <<"RUNNING", "OVER">>, <<"OVER", "RUNNING">>}

\* C13: every step that changes the phase makes one of the seven changes of
\* the lifecycle; a pause request while RUNNING with score 0 changes nothing;
\* and in OVER every step other than the retry leaves the phase OVER.
C13_OnlyLifecyclePhaseChanges ==
  [][/\ Phase' # Phase => <<Phase, Phase'>> \in PhaseChanges
     /\ (Phase = "RUNNING" /\ score = 0 /\ HandlePauseRequest) => UNCHANGED vars
     /\ (Phase = "OVER" /\ ~ResetGame) => Phase' = "OVER"]_vars

\* C13 witness: a second episode has been paused with a positive score, so
\* that the run has gone through READY, RUNNING, OVER, RUNNING, CONFIRM_PAUSE
\* and PAUSED.
C13_Witness ==
  episode = 2 /\ Phase = "PAUSED" /\ score > 0

\* C14: in every reachable state whose phase is CONFIRM_PAUSE the game is
\* paused, not over, and the score is positive.
C14_ConfirmPauseState ==
  Phase = "CONFIRM_PAUSE" => (isPaused /\ ~isGameOver /\ score > 0)

\* C14 witness: the confirmation dialog is shown.
C14_Witness ==
  Phase = "CONFIRM_PAUSE" /\ showPauseConfirm

\* C15: ticks are applied only while RUNNING: in READY, PAUSED, CONFIRM_PAUSE
\* and OVER no step other than the retry changes the snake, the food, the
\* score or lastDirection.
C15_TicksOnlyWhileRunning ==
  [][(Phase # "RUNNING" /\ ~ResetGame)
       => UNCHANGED <<snake, food, score, lastDirection>>]_vars

\* C15 witness: the game is stopped in PAUSED after a tick that turned the
\* snake, with the game loop not yet out of ticks.
C15_Witness ==
  Phase = "PAUSED" /\ lastDirection # "UP" /\ ticks < MaxTicksApp

\* the stored 'snake-high-score'
StoredHighScore == storage["snake-high-score"]

\* C16: a step that enters OVER with a score greater than the high score
\* makes the high score and the stored 'snake-high-score' the score, any
\* other entry into OVER leaves both unchanged, and no other step changes the
\* high score; so the high score never decreases and in OVER it is at least
\* the final score.
C16_HighScoreUpdate ==
  /\ [][IF Phase # "OVER" /\ Phase' = "OVER"
          THEN IF score > highScore
                 THEN highScore' = score /\ StoredHighScore' = ToString(score)
                 ELSE UNCHANGED <<highScore, StoredHighScore>>
          ELSE UNCHANGED highScore]_vars
  /\ [][highScore' >= highScore]_vars
  /\ [](Phase = "OVER" => highScore >= score)

\* C16 witness: the game is over with a positive score that was greater
\* than the high score and has become the high score and the stored value.
C16_Witness ==
  /\ Phase = "OVER" /\ score > 0 /\ episode = 1
  /\ highScore = score /\ StoredHighScore = ToString(score)

\* C16, the other case: with a high score of 10 stored by an earlier visit,
\* the game is over with a smaller score and the high score is still 10.
C16_KeptReached ==
  Phase = "OVER" /\ score < highScore /\ highScore = 10 /\ StoredHighScore = "10"

\* what a retry leaves behind apart from the food
RetryResetsAllButFood ==
  /\ Phase' = "RUNNING"
  /\ snake' = InitialSnake
  /\ score' = 0
  /\ direction' = "UP" /\ lastDirection' = "UP"
  /\ ~showPauseConfirm'
  /\ aiReview' = NoReview
  /\ UNCHANGED <<highScore, difficulty>>

\* C17 as stated: after a retry from OVER the phase is RUNNING with the
\* initial snake, the food at its initial value, score 0, both directions UP,
\* the dialog closed and no review; the high score and the difficulty are
\* unchanged.
C17_RetryRestoresInitialFood ==
  [][(Phase = "OVER" /\ ResetGame)
       => (RetryResetsAllButFood /\ food' = InitialFood)]_vars

\* C17 amended: as above, except that the food is not put back to its initial
\* value: it is at a cell of the grid newly chosen by generateFood, which is
\* any cell other than the head cell (10, 10).
C17_RetryResets ==
  [][(Phase = "OVER" /\ ResetGame)
       => /\ RetryResetsAllButFood
          /\ ~OffGrid(food')
          /\ food' # Point(10, 10)]_vars

\* C17 witness: a retry has just started a second episode, after the
\* difficulty was changed, with the food away from its initial cell.
C17_Witness ==
  /\ episode = 2 /\ Phase = "RUNNING" /\ snake = InitialSnake /\ score = 0
  /\ food # InitialFood /\ difficulty # "MEDIUM"

\* the stored 'snake-difficulty'
StoredDifficulty == storage["snake-difficulty"]

\* C18: the difficulty changes only in steps taken in READY or OVER, and in
\* RUNNING, PAUSED and CONFIRM_PAUSE no difficulty selection can change the
\* difficulty or the stored tier.
C18_DifficultyOnlyInReadyOrOver ==
  /\ [][<<difficulty, StoredDifficulty>>' # <<difficulty, StoredDifficulty>>
          => Phase \in {"READY", "OVER"}]_vars
  /\ [](Phase \in {"RUNNING", "PAUSED", "CONFIRM_PAUSE"}
          => \A d \in Difficulties :
               ~ENABLED (DifficultyChange(d)
                           /\ <<difficulty, StoredDifficulty>>'
                                # <<difficulty, StoredDifficulty>>))

\* C18 witness: the game is PAUSED with a tier that was selected in READY or
\* OVER.
C18_Witness ==
  Phase = "PAUSED" /\ difficulty = "HARD" /\ StoredDifficulty = "HARD"

\* the tick interval of the current state, in half milliseconds
IntervalTimes2 == currentSpeedTimes2(difficulty, score)

\* max(30, initialInterval - (score / 10) * increment) with the tiers
\* EASY (200, 1.5), MEDIUM (140, 3) and HARD (90, 6), in half milliseconds
TableIntervalTimes2 ==
  LET n == score \div 10
      linear == CASE difficulty = "EASY" -> 400 - 3 * n
                  [] difficulty = "MEDIUM" -> 280 - 6 * n
                  [] difficulty = "HARD" -> 180 - 12 * n
  IN IF linear >= 60 THEN linear ELSE 60

\* C19: for every tier and every score that is a non-negative multiple of 10
\* the tick interval is max(30, initialInterval - (score / 10) * increment)
\* and at least 30; when the score grows by 10 it does not increase, and it
\* strictly decreases as long as it is above 30.
C19_IntervalFloorAndMonotone ==
  /\ [](score % 10 = 0 => (IntervalTimes2 = TableIntervalTimes2 /\ IntervalTimes2 >= 2 * 30))
  /\ [][score' = score + 10
          => /\ IntervalTimes2' <= IntervalTimes2
             /\ IntervalTimes2 > 2 * 30 => IntervalTimes2' < IntervalTimes2]_vars

\* C19 witness: on the EASY tier, whose increment is 1.5, the interval has
\* come down to the floor of 30 ms.
C19_Witness ==
  difficulty = "EASY" /\ score > 0 /\ IntervalTimes2 = 2 * 30

\* C20: in every reachable state the score is a non-negative multiple of 10;
\* it changes only by +10 on a tick that eats and to 0 on a retry.
C20_ScoreMultipleOfTen ==
  /\ [](score \in Nat /\ score % 10 = 0)
  /\ [][score' # score
          => \/ Tick /\ TickHead = food /\ Len(snake') = Len(snake) + 1
                  /\ score' = score + 10
             \/ ResetGame /\ score' = 0]_vars

\* C20 witness: a retry has put the score back to 0 and the second episode
\* has eaten once.
C20_Witness ==
  episode = 2 /\ score = 10 /\ Len(snake) = 4

\* the state of the game logic: the flags of the phase, the snake, the food,
\* the score, the two directions and the high score
GameLogic ==
  <<isGameOver, isPaused, showPauseConfirm, snake, food, score, direction,
    lastDirection, highScore>>

\* The values a step of a game handler can give to each part of GameLogic:
\* OutcomeTests is the set of pairs <<i, c>>, read as GameLogic[i] = c.
OutcomeTests ==
  ({1, 2, 3} \X BOOLEAN)
    \cup ({4} \X {snake, InitialSnake, MovedSnake(snake, TickHead),
                   GrownSnake(snake, TickHead)})
    \cup ({5} \X (RandomCells \cup {food}))
    \cup ({6} \X {score, 0, ScoreAfterEat(score)})
    \cup ({7, 8} \X Directions)
    \cup ({9} \X {highScore, score})

\* a mute-toggle step
MuteToggle == ToggleMuteButton \/ ToggleMuteKey

\* handler A can give part t[1] of GameLogic the value t[2]
CanGive(A, t) == ENABLED (A /\ GameLogic'[t[1]] = t[2])

\* the steps of the game handlers, one for each intent
GameHandlerOutcomes(t) ==
  <<CanGive(TickApp, t), CanGive(ResetGame, t), CanGive(HandlePauseRequest, t),
    CanGive(ConfirmResume, t), CanGive(StayPaused, t), CanGive(OverlayResume, t),
    [d \in Directions |-> CanGive(DirectionIntent(d), t)]>>

\* C21: the mute flag does not affect the game logic: a mute toggle changes
\* none of phase, snake, food, score, directions and high score, and in the
\* states before and after a toggle of the flag, which differ in the mute
\* flags only, every game handler is enabled alike and can give the same
\* values to each of them.
C21_MuteDoesNotAffectGame ==
  [][/\ MuteToggle => GameLogic' = GameLogic
     /\ ToggleMuteButton =>
          \A t \in OutcomeTests : GameHandlerOutcomes(t)' = GameHandlerOutcomes(t)]_vars

\* C21 witness: the sound is muted while the game is RUNNING in a second
\* episode, after ticks, a game over and a retry taken with the flag set.
C21_Witness ==
  isMuted /\ soundMuted /\ keyMuted /\ Phase = "RUNNING" /\ episode = 2

\* the stored 'snake-muted'
StoredMuted == storage["snake-muted"]

\* C22: every mute toggle, from the button or from the M key and in whatever
\* phase, inverts the mute flag (so two toggles in a row restore it), and
\* after it the UI flag, the flag of the sound service and the stored
\* 'snake-muted' agree.
C22_MuteToggleInverts ==
  /\ ~ENABLED (ToggleMuteButton
                 /\ ~(isMuted' = ~isMuted /\ soundMuted' = isMuted'
                        /\ StoredMuted' = BoolString(isMuted')))
  /\ ~ENABLED (ToggleMuteKey
                 /\ ~(isMuted' = ~isMuted /\ soundMuted' = isMuted'
                        /\ StoredMuted' = BoolString(isMuted')))

\* C23: in every reachable state the pending direction is not the opposite
\* of lastDirection, so that the new head of a tick is never the second
\* segment of the snake.
C23_NoReversalIntoNeck ==
  /\ direction # Opposite(lastDirection)
  /\ TickHead # snake[2]

\* C23 witness: RUNNING after a turn, with a pending direction that differs
\* from lastDirection and was taken after another intent between two ticks.
C23_Witness ==
  /\ Phase = "RUNNING" /\ ticks > 1 /\ lastDirection = "LEFT"
  /\ direction = "DOWN" /\ snake[2].y = snake[1].y

\* C24: in every reachable state the length of the snake is 3 + score / 10:
\* it grows by exactly one on each tick that eats and on no other step, and
\* is back at 3, with the score back at 0, after a retry.
C24_LengthFollowsScore ==
  /\ [](score % 10 = 0 /\ Len(snake) = 3 + score \div 10)
  /\ [][/\ Len(snake') # Len(snake)
            => \/ Tick /\ TickHead = food /\ Len(snake') = Len(snake) + 1
               \/ ResetGame
        /\ (Tick /\ ~isGameOver' /\ TickHead = food) => Len(snake') = Len(snake) + 1
        /\ ResetGame => (Len(snake') = 3 /\ score' = 0)]_vars

\* C24 witness: a retry has put a grown snake back to three segments, and
\* the snake of the second episode has grown to five.
C24_Witness ==
  episode = 2 /\ Len(snake) = 5 /\ score = 20

====
